---- MODULE Spec2Model ----
(***************************************************************************)
(* Model of the landlord card-game engine in src/src/main.rs: the deck,    *)
(* Game::new, take_landlord, play_cards, pass, get_play and is_valid_play. *)
(* Every public method of Game is one action; its Result (or the panic of  *)
(* an unimplemented!() / unwrap()) is recorded in `result`.                *)
(***************************************************************************)
EXTENDS Integers, Sequences, FiniteSets, TLC

\* ---------------------------------------------------------------- bounds
\* number of shuffle outcomes Game::new may draw from
NumShuffles == 2
\* longest card list passed to play_cards
MaxPlayLen == 3
\* largest player index a caller passes (3 and above are invalid)
MaxPlayerIdx == 3
\* longest card list handed to get_play on its own
MaxClassifyLen == 4
\* the k-th shuffle outcome rotates the deck by k * ShuffleStride places
ShuffleStride == 10

\* ------------------------------------------------------ program constants
NumPlayers == 3
HandSize == 17
MaxPassCount == 2

\* ------------------------------------------------------------ cards, deck
Suits == <<"Spades", "Hearts", "Diamonds", "Clubs">>

Card(rank, suit) == [rank |-> rank, suit |-> suit]

\* get_deck: ranks 1..13, each in the four suits, then the two jokers
get_deck ==
  [i \in 1..52 |-> Card(((i - 1) \div 4) + 1, Suits[((i - 1) % 4) + 1])]
    \o <<Card(1, "Joker"), Card(2, "Joker")>>

DeckSize == Len(get_deck)

\* deck.shuffle(&mut thread_rng()): the k-th outcome drawn here is the
\* rotation of the deck by k * ShuffleStride places
Shuffle(deck, k) ==
  [i \in 1..Len(deck) |-> deck[((i - 1 + k * ShuffleStride) % Len(deck)) + 1]]

\* Option<usize>
None == {}
Some(x) == {x}

Panic == "panic"
Ok == "Ok"
ErrInvalidPlayerIndex == "Invalid player index"
ErrCenterPileEmpty == "Center pile is empty"
ErrGameAlreadyWon == "Game is already won"
ErrNotInHand == "Player does not have the card"
ErrInvalidPlay == "Invalid play"
ErrCantPassAgain == "Can't pass again on same turn"

\* Vec::contains
Contains(vec, x) == \E i \in 1..Len(vec) : vec[i] = x

\* Iterator::position: index of the first equal element, 0 when absent
Position(vec, x) ==
  IF Contains(vec, x)
  THEN CHOOSE i \in 1..Len(vec) : vec[i] = x /\ \A j \in 1..(i - 1) : vec[j] # x
  ELSE 0

\* Vec::remove(idx)
RemoveAt(vec, idx) == [i \in 1..(Len(vec) - 1) |-> IF i < idx THEN vec[i] ELSE vec[i + 1]]

\* Game::new for the k-th shuffle outcome
NewGame(k) ==
  LET deck == Shuffle(get_deck, k)
      n == Len(deck)
  IN [players |-> [p \in 0..(NumPlayers - 1) |->
                     [j \in 1..HandSize |-> deck[n - HandSize * p - (j - 1)]]],
      current_turn_idx |-> 0,
      pass_count |-> 0,
      play_sequence |-> <<>>,
      center_pile |-> SubSeq(deck, 1, n - NumPlayers * HandSize),
      winner |-> None,
      landlord |-> None]

\* outcome of a call: the Game afterwards and the value returned
Ret(g, res) == [g |-> g, res |-> res]

\* take_landlord that forgets center_pile.clear()
take_landlord_keeps_pile(g, player_idx) ==
  IF player_idx >= 3 THEN Ret(g, ErrInvalidPlayerIndex)
  ELSE IF Len(g.center_pile) = 0 THEN Ret(g, ErrCenterPileEmpty)
  ELSE Ret([g EXCEPT !.players[player_idx] = @ \o g.center_pile,
                     !.current_turn_idx = player_idx,
                     !.landlord = Some(player_idx)], Ok)

\* take_landlord that also restarts the pass count
take_landlord_resets_pass(g, player_idx) ==
  IF player_idx >= 3 THEN Ret(g, ErrInvalidPlayerIndex)
  ELSE IF Len(g.center_pile) = 0 THEN Ret(g, ErrCenterPileEmpty)
  ELSE Ret([g EXCEPT !.players[player_idx] = @ \o g.center_pile,
                     !.center_pile = <<>>,
                     !.current_turn_idx = player_idx,
                     !.pass_count = 0,
                     !.landlord = Some(player_idx)], Ok)

\* take_landlord that leaves the turn with whoever had it
take_landlord_keeps_turn(g, player_idx) ==
  IF player_idx >= 3 THEN Ret(g, ErrInvalidPlayerIndex)
  ELSE IF Len(g.center_pile) = 0 THEN Ret(g, ErrCenterPileEmpty)
  ELSE Ret([g EXCEPT !.players[player_idx] = @ \o g.center_pile,
                     !.center_pile = <<>>,
                     !.landlord = Some(player_idx)], Ok)

\* take_landlord without the test for an empty center pile
take_landlord_no_pile_check(g, player_idx) ==
  IF player_idx >= 3 THEN Ret(g, ErrInvalidPlayerIndex)
  ELSE Ret([g EXCEPT !.players[player_idx] = @ \o g.center_pile,
                     !.center_pile = <<>>,
                     !.current_turn_idx = player_idx,
                     !.landlord = Some(player_idx)], Ok)

\* Game::take_landlord
take_landlord(g, player_idx) ==
  IF player_idx >= 3 THEN Ret(g, ErrInvalidPlayerIndex)
  ELSE IF Len(g.center_pile) = 0 THEN Ret(g, ErrCenterPileEmpty)
  ELSE Ret([g EXCEPT !.players[player_idx] = @ \o g.center_pile,
                     !.center_pile = <<>>,
                     !.current_turn_idx = player_idx,
                     !.landlord = Some(player_idx)], Ok)

\* pass that advances the turn without the % 3
pass_no_wrap(g, player_idx) ==
  IF g.winner # None THEN Ret(g, ErrGameAlreadyWon)
  ELSE IF player_idx >= 3 THEN Ret(g, ErrInvalidPlayerIndex)
  ELSE IF g.pass_count = MaxPassCount THEN Ret(g, ErrCantPassAgain)
  ELSE Ret([g EXCEPT !.pass_count = @ + 1,
                     !.current_turn_idx = @ + 1], Ok)

\* pass whose streak test is off by one (pass_count == 3)
pass_guard_off_by_one(g, player_idx) ==
  IF g.winner # None THEN Ret(g, ErrGameAlreadyWon)
  ELSE IF player_idx >= 3 THEN Ret(g, ErrInvalidPlayerIndex)
  ELSE IF g.pass_count = MaxPassCount + 1 THEN Ret(g, ErrCantPassAgain)
  ELSE Ret([g EXCEPT !.pass_count = @ + 1,
                     !.current_turn_idx = (@ + 1) % 3], Ok)

\* pass whose index test is off by one (player_idx > 3)
pass_index_off_by_one(g, player_idx) ==
  IF g.winner # None THEN Ret(g, ErrGameAlreadyWon)
  ELSE IF player_idx > 3 THEN Ret(g, ErrInvalidPlayerIndex)
  ELSE IF g.pass_count = MaxPassCount THEN Ret(g, ErrCantPassAgain)
  ELSE Ret([g EXCEPT !.pass_count = @ + 1,
                     !.current_turn_idx = (@ + 1) % 3], Ok)

\* Game::pass
pass(g, player_idx) ==
  IF g.winner # None THEN Ret(g, ErrGameAlreadyWon)
  ELSE IF player_idx >= 3 THEN Ret(g, ErrInvalidPlayerIndex)
  ELSE IF g.pass_count = MaxPassCount THEN Ret(g, ErrCantPassAgain)
  ELSE Ret([g EXCEPT !.pass_count = @ + 1,
                     !.current_turn_idx = (@ + 1) % 3], Ok)

\* ------------------------------------------------------------ classifier
\* number of cards of `cards` whose suit is that of cards[i]
SuitCount(cards, i) == Cardinality({j \in 1..Len(cards) : cards[j].suit = cards[i].suit})

\* the comparator of sort_field_mode!: by count of the main field, then by
\* the second field; Vec::sort_by is stable, so ties keep their input order
SortBefore(cards, i, j) ==
  LET ci == SuitCount(cards, i)
      cj == SuitCount(cards, j)
  IN \/ ci < cj
     \/ ci = cj /\ cards[i].rank < cards[j].rank
     \/ ci = cj /\ cards[i].rank = cards[j].rank /\ i < j

\* sort_field_mode!(cards, suit, rank)
sort_field_mode(cards) ==
  [n \in 1..Len(cards) |->
     cards[CHOOSE i \in 1..Len(cards) :
             Cardinality({j \in 1..Len(cards) : SortBefore(cards, j, i)}) = n - 1]]

Single(card) == [tag |-> "Single", cards |-> <<card>>]

\* Game::get_play: the cards are sorted in place, then matched on their number
get_play(cards) ==
  LET sorted == sort_field_mode(cards)
  IN IF Len(sorted) = 1 THEN [res |-> Ok, play |-> Single(sorted[1]), cards |-> sorted]
     ELSE IF Len(sorted) = 2 THEN [res |-> Panic, play |-> <<>>, cards |-> sorted]
     ELSE [res |-> ErrInvalidPlay, play |-> <<>>, cards |-> sorted]

\* is_valid_play that accepts every play
is_valid_play_accepts(sequence, play, pass_count) == "true"

\* Game::is_valid_play: the body is unimplemented!()
is_valid_play(sequence, play, pass_count) == Panic

\* the loop of play_cards that removes each played card from the hand;
\* position(..).unwrap() panics when the card is no longer there
RECURSIVE RemoveCards(_, _)
RemoveCards(hand, cards) ==
  IF Len(cards) = 0 THEN [hand |-> hand, panic |-> FALSE]
  ELSE LET idx == Position(hand, Head(cards))
       IN IF idx = 0 THEN [hand |-> hand, panic |-> TRUE]
          ELSE RemoveCards(RemoveAt(hand, idx), Tail(cards))

\* play_cards that takes each card out of the hand while it checks possession
play_cards_removes_while_checking(g, player_idx, cards) ==
  IF g.winner # None THEN Ret(g, ErrGameAlreadyWon)
  ELSE IF player_idx >= 3 THEN Ret(g, ErrInvalidPlayerIndex)
  ELSE
    LET rm == RemoveCards(g.players[player_idx], cards)
        g1 == [g EXCEPT !.players[player_idx] = rm.hand]
    IN IF rm.panic THEN Ret(g1, ErrNotInHand)
       ELSE
         LET gp == get_play(cards)
         IN IF gp.res # Ok THEN Ret(g1, gp.res)
            ELSE
              LET valid == is_valid_play(g.play_sequence, gp.play, g.pass_count)
                  g2 == [g1 EXCEPT !.play_sequence = Append(@, gp.play),
                                   !.current_turn_idx = (@ + 1) % 3,
                                   !.pass_count = 0]
              IN IF valid = Panic THEN Ret(g1, Panic)
                 ELSE IF valid = "false" THEN Ret(g1, ErrInvalidPlay)
                 ELSE IF Len(g2.players[player_idx]) = 0
                   THEN Ret([g2 EXCEPT !.winner = Some(player_idx)], Ok)
                 ELSE Ret(g2, Ok)

\* play_cards that classifies the cards before it checks possession
play_cards_classifies_first(g, player_idx, cards) ==
  IF g.winner # None THEN Ret(g, ErrGameAlreadyWon)
  ELSE IF player_idx >= 3 THEN Ret(g, ErrInvalidPlayerIndex)
  ELSE
    LET gp == get_play(cards)
    IN IF gp.res # Ok THEN Ret(g, gp.res)
       ELSE IF \E i \in 1..Len(cards) : ~Contains(g.players[player_idx], cards[i])
         THEN Ret(g, ErrNotInHand)
       ELSE
         LET valid == is_valid_play(g.play_sequence, gp.play, g.pass_count)
         IN IF valid = Panic THEN Ret(g, Panic)
            ELSE IF valid = "false" THEN Ret(g, ErrInvalidPlay)
            ELSE
              LET rm == RemoveCards(g.players[player_idx], gp.cards)
                  g1 == [g EXCEPT !.players[player_idx] = rm.hand]
                  g2 == [g1 EXCEPT !.play_sequence = Append(@, gp.play),
                                   !.current_turn_idx = (@ + 1) % 3,
                                   !.pass_count = 0]
              IN IF rm.panic THEN Ret(g1, Panic)
                 ELSE IF Len(g2.players[player_idx]) = 0
                   THEN Ret([g2 EXCEPT !.winner = Some(player_idx)], Ok)
                 ELSE Ret(g2, Ok)

\* Game::play_cards
play_cards(g, player_idx, cards) ==
  IF g.winner # None THEN Ret(g, ErrGameAlreadyWon)
  ELSE IF player_idx >= 3 THEN Ret(g, ErrInvalidPlayerIndex)
  ELSE IF \E i \in 1..Len(cards) : ~Contains(g.players[player_idx], cards[i])
    THEN Ret(g, ErrNotInHand)
  ELSE
    LET gp == get_play(cards)
    IN IF gp.res # Ok THEN Ret(g, gp.res)
       ELSE
         LET valid == is_valid_play(g.play_sequence, gp.play, g.pass_count)
         IN IF valid = Panic THEN Ret(g, Panic)
            ELSE IF valid = "false" THEN Ret(g, ErrInvalidPlay)
            ELSE
              LET rm == RemoveCards(g.players[player_idx], gp.cards)
                  g1 == [g EXCEPT !.players[player_idx] = rm.hand]
                  g2 == [g1 EXCEPT !.play_sequence = Append(@, gp.play),
                                   !.current_turn_idx = (@ + 1) % 3,
                                   !.pass_count = 0]
              IN IF rm.panic THEN Ret(g1, Panic)
                 ELSE IF Len(g2.players[player_idx]) = 0
                   THEN Ret([g2 EXCEPT !.winner = Some(player_idx)], Ok)
                 ELSE Ret(g2, Ok)

\* ---------------------------------------------------------------- inputs
PlayerIdxInputs == 0..MaxPlayerIdx

\* the cards a caller names: the unshuffled deal gives both to player 2, the
\* rotated deal puts the first in the kitty and the second in player 2's hand
Pool == {Card(4, "Spades"), Card(4, "Hearts")}

CardLists == UNION {[1..n -> Pool] : n \in 0..MaxPlayLen}

\* ---------------------------------------------------------------- state
VARIABLES players, current_turn_idx, pass_count, play_sequence, center_pile,
          winner, landlord, lastCall, result, recent, fnIn, fnOut

gameVars == <<players, current_turn_idx, pass_count, play_sequence,
              center_pile, winner, landlord>>
\* the arguments and the return value of a direct call of one of the two
\* associated functions get_play and is_valid_play (used by SpecPure only)
pureVars == <<fnIn, fnOut>>
vars == <<players, current_turn_idx, pass_count, play_sequence, center_pile,
          winner, landlord, lastCall, result, recent, fnIn, fnOut>>

\* the Game value held in the variables
Game ==
  [players |-> players, current_turn_idx |-> current_turn_idx,
   pass_count |-> pass_count, play_sequence |-> play_sequence,
   center_pile |-> center_pile, winner |-> winner, landlord |-> landlord]

SetGame(g) ==
  /\ players' = g.players
  /\ current_turn_idx' = g.current_turn_idx
  /\ pass_count' = g.pass_count
  /\ play_sequence' = g.play_sequence
  /\ center_pile' = g.center_pile
  /\ winner' = g.winner
  /\ landlord' = g.landlord

Call(op, player_idx, cards) == [op |-> op, player_idx |-> player_idx, cards |-> cards]

\* history variable: the last (up to three) play_cards / pass calls that
\* returned Ok, oldest first
Remember(op) == IF Len(recent) < 3 THEN Append(recent, op) ELSE Append(Tail(recent), op)

Init ==
  \E k \in 0..(NumShuffles - 1) :
    LET g == NewGame(k)
    IN /\ players = g.players
       /\ current_turn_idx = g.current_turn_idx
       /\ pass_count = g.pass_count
       /\ play_sequence = g.play_sequence
       /\ center_pile = g.center_pile
       /\ winner = g.winner
       /\ landlord = g.landlord
       /\ lastCall = Call("new", 0, <<>>)
       /\ result = Ok
       /\ recent = <<>>
       /\ fnIn = [fn |-> "none"]
       /\ fnOut = [res |-> "none"]

\* a panic aborts the program: no call follows it
Running == result # Panic

TakeLandlord ==
  \E p \in PlayerIdxInputs :
    \E r \in {take_landlord(Game, p)} :
       /\ Running
       /\ SetGame(r.g)
       /\ lastCall' = Call("take_landlord", p, <<>>)
       /\ result' = r.res
       /\ UNCHANGED <<recent, pureVars>>

PlayCards ==
  \E p \in PlayerIdxInputs, cards \in CardLists :
    \E r \in {play_cards(Game, p, cards)} :
       /\ Running
       /\ SetGame(r.g)
       /\ lastCall' = Call("play_cards", p, cards)
       /\ result' = r.res
       /\ recent' = IF r.res = Ok THEN Remember("play_cards") ELSE recent
       /\ UNCHANGED pureVars

Pass ==
  \E p \in PlayerIdxInputs :
    \E r \in {pass(Game, p)} :
       /\ Running
       /\ SetGame(r.g)
       /\ lastCall' = Call("pass", p, <<>>)
       /\ result' = r.res
       /\ recent' = IF r.res = Ok THEN Remember("pass") ELSE recent
       /\ UNCHANGED pureVars

Next == TakeLandlord \/ Pass \/ PlayCards

Spec == Init /\ [][Next]_vars

\* ------------------------------------------- the two functions, on their own
Pair(cards) == [tag |-> "Pair", cards |-> cards]
Bomb(cards) == [tag |-> "Bomb", cards |-> cards]

\* the four cards of one rank
Quad(rank) == [i \in 1..4 |-> Card(rank, Suits[i])]
Rocket == Bomb(<<Card(1, "Joker"), Card(2, "Joker")>>)

\* cards handed to get_play: the four 3s, one 4 and the two jokers
ClassifierPool ==
  {Card(3, Suits[i]) : i \in 1..4}
    \cup {Card(4, "Spades"), Card(1, "Joker"), Card(2, "Joker")}

\* every list of 1 to MaxClassifyLen pairwise different cards of the pool
ClassifierInputs ==
  {cards \in UNION {[1..n -> ClassifierPool] : n \in 1..MaxClassifyLen} :
     \A i \in 1..Len(cards), j \in 1..Len(cards) : i # j => cards[i] # cards[j]}

\* plays handed to is_valid_play as target and as candidate
ValidatorPlays ==
  {Single(c) : c \in {Card(3, "Spades"), Card(3, "Hearts"), Card(13, "Spades"),
                      Card(1, "Spades"), Card(2, "Spades"),
                      Card(1, "Joker"), Card(2, "Joker")}}
    \cup {Pair(<<Card(r, "Spades"), Card(r, "Hearts")>>) : r \in {2, 3, 13}}
    \cup {Bomb(Quad(r)) : r \in {2, 3}}
    \cup {Rocket}

\* sequences handed to is_valid_play: empty, or ending in the target
ValidatorSequences ==
  {<<>>} \cup {<<t>> : t \in ValidatorPlays}
         \cup {<<Single(Card(5, "Clubs")), t>> : t \in ValidatorPlays}

InitPure ==
  LET g == NewGame(0)
  IN /\ players = g.players
     /\ current_turn_idx = g.current_turn_idx
     /\ pass_count = g.pass_count
     /\ play_sequence = g.play_sequence
     /\ center_pile = g.center_pile
     /\ winner = g.winner
     /\ landlord = g.landlord
     /\ lastCall = Call("new", 0, <<>>)
     /\ result = Ok
     /\ recent = <<>>
     /\ fnOut = [res |-> "pending"]
     /\ \/ \E cards \in ClassifierInputs :
             fnIn = [fn |-> "get_play", cards |-> cards]
        \/ \E sequence \in ValidatorSequences, play \in ValidatorPlays,
              pc \in 0..MaxPassCount :
             fnIn = [fn |-> "is_valid_play", sequence |-> sequence,
                     play |-> play, pass_count |-> pc]

\* Self::get_play(cards)
ApplyGetPlay ==
  /\ fnIn.fn = "get_play" /\ fnOut.res = "pending"
  /\ fnOut' = get_play(fnIn.cards)
  /\ UNCHANGED <<gameVars, lastCall, result, recent, fnIn>>

\* Self::is_valid_play(&sequence, &play, pass_count)
ApplyIsValidPlay ==
  /\ fnIn.fn = "is_valid_play" /\ fnOut.res = "pending"
  /\ fnOut' = [res |-> is_valid_play(fnIn.sequence, fnIn.play, fnIn.pass_count)]
  /\ UNCHANGED <<gameVars, lastCall, result, recent, fnIn>>

NextPure == ApplyGetPlay \/ ApplyIsValidPlay

SpecPure == InitPure /\ [][NextPure]_vars

\* ---------------------------------------------------------------- claims
\* number of cards owned by the plays of a play sequence
RECURSIVE CardsInSequence(_)
CardsInSequence(seq) ==
  IF Len(seq) = 0 THEN 0 ELSE Len(Head(seq).cards) + CardsInSequence(Tail(seq))

\* C1: card conservation - the three hand sizes, the kitty size and the
\* number of cards held in play_sequence add up to 54, and no card is in two
\* hands or in a hand and the kitty at the same time.
CardConservation ==
  /\ Len(players[0]) + Len(players[1]) + Len(players[2]) + Len(center_pile)
       + CardsInSequence(play_sequence) = 54
  /\ \A p \in 0..2, q \in 0..2 : \A i \in 1..Len(players[p]) :
       /\ p # q => ~Contains(players[q], players[p][i])
       /\ ~Contains(center_pile, players[p][i])

\* the kitty has been moved into the landlord's hand
CardConservationWitness ==
  \E p \in 0..2 :
    /\ landlord = Some(p)
    /\ Len(center_pile) = 0
    /\ Len(players[p]) = 20
    /\ lastCall.op = "take_landlord" /\ result = Ok

\* C2: turn ownership - a play_cards or pass call by a player other than the
\* one the turn pointer names fails with NotPlayersTurn and changes no field.
TurnOwnership ==
  [][(/\ lastCall'.op \in {"play_cards", "pass"}
      /\ lastCall'.player_idx < 3
      /\ lastCall'.player_idx # current_turn_idx)
       => (result' = "NotPlayersTurn" /\ UNCHANGED gameVars)]_vars

\* C3: turn rotation - the turn pointer is always in {0,1,2}, and after every
\* successful play_cards or pass call it is its previous value + 1 mod 3.
TurnRotation ==
  /\ [](current_turn_idx \in {0, 1, 2})
  /\ [][(lastCall'.op \in {"play_cards", "pass"} /\ result' = Ok)
          => current_turn_idx' = (current_turn_idx + 1) % 3]_vars

\* a successful pass has wrapped the turn pointer from 2 to 0
TurnRotationWitness ==
  /\ lastCall.op = "pass" /\ result = Ok
  /\ current_turn_idx = 0
  /\ landlord = Some(2)

\* C4: pass-streak evolution - the pass streak is always in {0,1,2}; a
\* successful pass adds exactly 1, a successful play sets it to 0, and
\* take_landlord and every failed call leave it as it was.
PassStreakEvolution ==
  /\ [](pass_count \in {0, 1, 2})
  /\ [][/\ (lastCall'.op = "pass" /\ result' = Ok) => pass_count' = pass_count + 1
        /\ (lastCall'.op = "play_cards" /\ result' = Ok) => pass_count' = 0
        /\ (lastCall'.op = "take_landlord" \/ result' # Ok) => pass_count' = pass_count]_vars

\* landlord assignment after a pass has kept the streak the passes built
PassStreakWitness ==
  /\ lastCall.op = "take_landlord" /\ result = Ok
  /\ pass_count = 2

\* C5: forced lead - when the pass streak is 2, a pass by any valid player
\* fails with "Can't pass again on same turn" and changes no field, so three
\* successful passes in a row never occur.
ForcedLead ==
  /\ [][(pass_count = 2 /\ lastCall'.op = "pass" /\ lastCall'.player_idx < 3)
          => (result' = ErrCantPassAgain /\ UNCHANGED gameVars)]_vars
  /\ [](recent # <<"pass", "pass", "pass">>)

\* a third pass in a row has been refused
ForcedLeadWitness ==
  /\ lastCall.op = "pass" /\ result = ErrCantPassAgain
  /\ pass_count = 2
  /\ recent = <<"pass", "pass">>

\* C9: failure atomicity - a play_cards call that returns an error leaves the
\* hands, history, turn pointer, pass streak, winner, landlord and kitty as
\* they were before the call.
FailureAtomicity ==
  [][(lastCall'.op = "play_cards" /\ result' \notin {Ok, Panic})
       => UNCHANGED gameVars]_vars

\* a play naming a card the player holds and one the player lacks was refused
FailureAtomicityWitness ==
  /\ lastCall.op = "play_cards" /\ result = ErrNotInHand
  /\ lastCall.player_idx < 3
  /\ \E i \in 1..Len(lastCall.cards) : Contains(players[lastCall.player_idx], lastCall.cards[i])

\* C10: no crash - play_cards, pass and take_landlord always return Ok or an
\* error value; none of them panics.
NoCrash == result # Panic

\* C11: landlord assignment effect - a successful take_landlord(p) appends
\* the whole (three-card) kitty to player p's hand, empties the kitty, sets
\* the turn pointer and the landlord to p, and leaves the other two hands,
\* the history, the pass streak and the winner unchanged.
LandlordAssignment ==
  [][(lastCall'.op = "take_landlord" /\ result' = Ok)
       => (/\ Len(center_pile) = 3
           /\ players'[lastCall'.player_idx] = players[lastCall'.player_idx] \o center_pile
           /\ center_pile' = <<>>
           /\ current_turn_idx' = lastCall'.player_idx
           /\ landlord' = Some(lastCall'.player_idx)
           /\ \A q \in 0..2 : q # lastCall'.player_idx => players'[q] = players[q]
           /\ UNCHANGED <<play_sequence, pass_count, winner>>)]_vars

\* player 2 took the kitty after one pass had moved the turn to player 1
LandlordAssignmentWitness ==
  /\ lastCall = Call("take_landlord", 2, <<>>) /\ result = Ok
  /\ landlord = Some(2) /\ current_turn_idx = 2
  /\ Len(players[2]) = 20 /\ Len(center_pile) = 0
  /\ pass_count = 1

\* C12: landlord assigned at most once - after a successful take_landlord
\* every later take_landlord call returns an error and changes no field, and
\* landlord, once set, never changes.
LandlordOnce ==
  /\ [][(landlord # None /\ lastCall'.op = "take_landlord")
          => (result' \in {ErrCenterPileEmpty, ErrInvalidPlayerIndex}
              /\ UNCHANGED gameVars)]_vars
  /\ [][landlord # None => landlord' = landlord]_vars

\* a second assignment, to another player, has been refused
LandlordOnceWitness ==
  /\ lastCall.op = "take_landlord" /\ result = ErrCenterPileEmpty
  /\ lastCall.player_idx < 3
  /\ landlord # None /\ landlord # Some(lastCall.player_idx)

\* C13: phase ordering - while no landlord has been assigned no play_cards
\* or pass call succeeds, so the turn pointer, the pass streak and the
\* history still have their initial values when take_landlord first succeeds.
PhaseOrdering ==
  /\ [][(landlord = None /\ lastCall'.op \in {"play_cards", "pass"})
          => result' # Ok]_vars
  /\ [][(landlord = None /\ lastCall'.op = "take_landlord" /\ result' = Ok)
          => (current_turn_idx = 0 /\ pass_count = 0 /\ play_sequence = <<>>)]_vars

\* C14: invalid player index - take_landlord, play_cards and pass called
\* with a player index outside {0,1,2} in a game not yet won each return
\* "Invalid player index" and change no field.
InvalidPlayerIndex ==
  [][(/\ lastCall'.op \in {"take_landlord", "play_cards", "pass"}
      /\ lastCall'.player_idx \notin {0, 1, 2}
      /\ winner = None)
       => (result' = ErrInvalidPlayerIndex /\ UNCHANGED gameVars)]_vars

\* a pass with an index past the last player was refused after two passes
InvalidPlayerIndexWitness ==
  /\ lastCall.op = "pass" /\ lastCall.player_idx >= 3
  /\ result = ErrInvalidPlayerIndex
  /\ pass_count = 2

\* C15: possession check - a play_cards call by a valid player in a game not
\* yet won that names at least one card the player does not hold returns
\* "Player does not have the card", whatever the number of cards (so before
\* the classifier or the validator runs), and changes no field.
PossessionCheck ==
  [][(/\ lastCall'.op = "play_cards"
      /\ lastCall'.player_idx < 3
      /\ winner = None
      /\ \E i \in 1..Len(lastCall'.cards) :
           ~Contains(players[lastCall'.player_idx], lastCall'.cards[i]))
       => (result' = ErrNotInHand /\ UNCHANGED gameVars)]_vars

\* a two-card play whose first card is held and whose second is not was
\* refused for possession, not handed to the two-card classifier
PossessionCheckWitness ==
  /\ lastCall.op = "play_cards" /\ lastCall.player_idx < 3
  /\ Len(lastCall.cards) = 2
  /\ Contains(players[lastCall.player_idx], lastCall.cards[1])
  /\ ~Contains(players[lastCall.player_idx], lastCall.cards[2])
  /\ result = ErrNotInHand

\* C16: free lead - with an empty history or a pass streak of 2, a play of
\* one card the player holds is accepted: the card leaves the hand, the
\* Single play is appended to the history, the pass streak becomes 0 and the
\* turn moves to the next player.
FreeLead ==
  [][(/\ lastCall'.op = "play_cards"
      /\ lastCall'.player_idx < 3
      /\ winner = None
      /\ (play_sequence = <<>> \/ pass_count = 2)
      /\ Len(lastCall'.cards) = 1
      /\ Contains(players[lastCall'.player_idx], lastCall'.cards[1]))
       => (/\ result' = Ok
           /\ players' = [players EXCEPT ![lastCall'.player_idx] =
                            RemoveAt(@, Position(@, lastCall'.cards[1]))]
           /\ play_sequence' = Append(play_sequence, Single(lastCall'.cards[1]))
           /\ pass_count' = 0
           /\ current_turn_idx' = (current_turn_idx + 1) % 3)]_vars

\* C20: as written, no play_cards call returns Ok - it returns an error
\* (game won, bad index, card not held, or "Invalid play" for a list of 0 or
\* of 3 and more cards) or panics (on a list of 1 or 2 held cards); so the
\* history is always empty, winner is always unset, no hand ever loses a
\* card (a hand changes only by cards appended to it), and once the pass
\* streak is 2 the only call that still changes the Game is a first
\* take_landlord.
NoPlaySucceeds ==
  /\ [](lastCall.op = "play_cards"
          => /\ result \in {ErrGameAlreadyWon, ErrInvalidPlayerIndex, ErrNotInHand,
                            ErrInvalidPlay, Panic}
             /\ result = ErrInvalidPlay
                  => (Len(lastCall.cards) = 0 \/ Len(lastCall.cards) >= 3)
             /\ result = Panic => Len(lastCall.cards) \in {1, 2})
  /\ [](play_sequence = <<>> /\ winner = None)
  /\ [][\A p \in 0..2 :
          \/ players'[p] = players[p]
          \/ /\ Len(players'[p]) > Len(players[p])
             /\ SubSeq(players'[p], 1, Len(players[p])) = players[p]]_vars
  /\ [][(pass_count = 2 /\ gameVars' # gameVars)
          => (lastCall'.op = "take_landlord" /\ landlord = None)]_vars

\* after two passes and a landlord assignment, a play of two held cards
\* aborted in the classifier
NoPlaySucceedsWitness ==
  /\ lastCall.op = "play_cards" /\ result = Panic
  /\ Len(lastCall.cards) = 2
  /\ lastCall.cards[1] # lastCall.cards[2]
  /\ pass_count = 2 /\ landlord # None

\* rank strength of the specification: 3 < 4 < ... < K < A < 2 < small
\* joker < big joker, over the deck's encoding (1 = A, 2 = 2, 3..13 = 3..K,
\* jokers of rank 1 and 2)
Strength(card) ==
  IF card.suit = "Joker" THEN 13 + card.rank
  ELSE IF card.rank >= 3 THEN card.rank - 2
  ELSE card.rank + 11

\* is_valid_play has returned, with a target present
ValidatedAgainstTarget ==
  /\ fnIn.fn = "is_valid_play" /\ fnOut.res # "pending"
  /\ Len(fnIn.sequence) > 0 /\ fnIn.pass_count < 2

Target == fnIn.sequence[Len(fnIn.sequence)]

\* C17: validator monotonicity - with a target present and a non-Bomb
\* target, a candidate of the same shape is accepted when its anchor rank is
\* strictly higher than the target's and rejected when it is lower or equal.
ValidatorMonotonicity ==
  (ValidatedAgainstTarget /\ Target.tag # "Bomb" /\ fnIn.play.tag = Target.tag)
    => IF Strength(fnIn.play.cards[1]) > Strength(Target.cards[1])
       THEN fnOut.res = "true"
       ELSE fnOut.res = "false"

\* C18: bomb override - with a target present, a Bomb candidate is accepted
\* over any non-Bomb target, the Rocket is accepted over every four-of-a-kind
\* Bomb, and a non-Bomb candidate is never accepted over a Bomb target.
BombOverride ==
  ValidatedAgainstTarget
    => /\ (fnIn.play.tag = "Bomb" /\ Target.tag # "Bomb") => fnOut.res = "true"
       /\ (fnIn.play = Rocket /\ Target.tag = "Bomb" /\ Target # Rocket)
            => fnOut.res = "true"
       /\ (fnIn.play.tag # "Bomb" /\ Target.tag = "Bomb") => fnOut.res # "true"

\* the rank a card counts under when cards are grouped: the jokers are ranks
\* of their own
RankKey(card) == <<card.rank, card.suit = "Joker">>

\* sizes of the groups of equal rank among the cards
GroupSizes(cards) ==
  {Cardinality({j \in 1..Len(cards) : RankKey(cards[j]) = RankKey(cards[i])}) :
     i \in 1..Len(cards)}

\* the shape the specification gives 1 to 4 distinct cards, by composition
ShapeByComposition(cards) ==
  IF Len(cards) = 1 THEN "Single"
  ELSE IF Len(cards) = 2 /\ \A i \in 1..2 : cards[i].suit = "Joker" THEN "Bomb"
  ELSE IF Len(cards) = 2 /\ GroupSizes(cards) = {2} THEN "Pair"
  ELSE IF Len(cards) = 3 /\ GroupSizes(cards) = {3} THEN "TripleSolo"
  ELSE IF Len(cards) = 4 /\ GroupSizes(cards) = {4} THEN "Bomb"
  ELSE IF Len(cards) = 4 /\ GroupSizes(cards) = {3, 1} THEN "TripleSingle"
  ELSE "InvalidShape"

\* C19: classification of 1 to 4 distinct cards - get_play returns Single,
\* Bomb (two jokers, four of a rank), Pair, TripleSolo or TripleSingle as the
\* composition of the cards says, and "Invalid play" for every other set,
\* whatever the order of the cards.
ClassifiedByComposition ==
  (fnIn.fn = "get_play" /\ fnOut.res # "pending" /\ Len(fnIn.cards) <= 4)
    => IF ShapeByComposition(fnIn.cards) = "InvalidShape"
       THEN fnOut.res = ErrInvalidPlay
       ELSE fnOut.res = Ok /\ fnOut.play.tag = ShapeByComposition(fnIn.cards)
====
